---- MODULE Spec2Model ----
(***************************************************************************)
(* Model of the sortable location table: App.mapLocationResult (record     *)
(* normalisation), Table (sort descriptor state, the memoised sortedItems  *)
(* handed to TableBody) and the stand-alone sortItems comparator chain.    *)
(*                                                                         *)
(* Strings are sequences of UTF-16 code units, so that the two string      *)
(* orders the source uses (the relational operators, which compare code    *)
(* units, and String.prototype.localeCompare, which collates) are both     *)
(* computed and can disagree.  Arrays live in a heap of array objects so   *)
(* that the in-place Array.prototype.sort and the copies made by spread    *)
(* and slice are distinguishable.                                          *)
(***************************************************************************)
EXTENDS Integers, Sequences, FiniteSets

VARIABLES raw, mounted, heap, sortDescriptor, sortedItems, request,
          sortArgs, sortResult

vars == <<raw, mounted, heap, sortDescriptor, sortedItems, request,
          sortArgs, sortResult>>

(***************************************************************************)
(* Bounds and input domains                                                *)
(***************************************************************************)
MaxLen == 2

\* "B", precomposed "a-acute" (U+00E1), decomposed "a" + U+0301
Locations == { <<66>>, <<225>>, <<97, 769>> }

Months == {3, 5}

Years == {2020, 2021}

Totals == {5, 7}

RawRecords == [location : Locations, month : Months, year : Years, total : Totals]

RawInputs == UNION { [1..n -> RawRecords] : n \in 0..MaxLen }

Directions == {"ascending", "descending"}

\* ids of the columns rendered with allowsSorting
SortableColumns == {"location", "month", "year", "total"}

\* a SortDescriptor column is any Key; "id" is a field no column shows,
\* "unknown" is no field of LocationData at all
Keys == SortableColumns \cup {"id", "unknown"}

None == "none"

\* no descriptor yet: nothing requested, nothing called
NoDescriptor == [column |-> None, direction |-> None]

(***************************************************************************)
(* JavaScript values and strings                                           *)
(***************************************************************************)
\* code-unit lexicographic comparison of two strings: -1, 0 or 1
RECURSIVE CodeUnitCompare(_, _)
CodeUnitCompare(s, t) ==
    IF s = <<>> /\ t = <<>> THEN 0
    ELSE IF s = <<>> THEN -1
    ELSE IF t = <<>> THEN 1
    ELSE IF s[1] < t[1] THEN -1
    ELSE IF s[1] > t[1] THEN 1
    ELSE CodeUnitCompare(Tail(s), Tail(t))

\* Number to decimal string, for the non-negative integers of the data
RECURSIVE NumberToString(_)
NumberToString(n) ==
    IF n < 10 THEN <<48 + n>>
    ELSE NumberToString(n \div 10) \o <<48 + (n % 10)>>

\* a[column]: a tagged JavaScript value
Get(a, column) ==
    CASE column = "id"       -> [type |-> "string", str |-> a.id, num |-> 0]
      [] column = "location" -> [type |-> "string", str |-> a.location, num |-> 0]
      [] column = "month"    -> [type |-> "number", str |-> <<>>, num |-> a.month]
      [] column = "year"     -> [type |-> "number", str |-> <<>>, num |-> a.year]
      [] column = "total"    -> [type |-> "number", str |-> <<>>, num |-> a.total]
      [] OTHER               -> [type |-> "undefined", str |-> <<>>, num |-> 0]

\* x < y of two values of one column: strings by code units, numbers by
\* value, undefined (NaN after ToNumber) never
LessThan(x, y) ==
    IF x.type = "string" /\ y.type = "string" THEN CodeUnitCompare(x.str, y.str) < 0
    ELSE IF x.type = "number" /\ y.type = "number" THEN x.num < y.num
    ELSE FALSE

(***************************************************************************)
(* String.prototype.localeCompare: canonical decomposition, then a         *)
(* three-level comparison of collation weights (base letter, accent, case) *)
(***************************************************************************)
RECURSIVE NFD(_)
NFD(s) ==
    IF s = <<>> THEN <<>>
    ELSE IF s[1] = 225 THEN <<97, 769>> \o NFD(Tail(s))
    ELSE <<s[1]>> \o NFD(Tail(s))

\* <<primary, secondary, tertiary>> weight of a code unit
CollationElement(c) ==
    CASE c = 97  -> <<1, 0, 0>>
      [] c = 65  -> <<1, 0, 1>>
      [] c = 98  -> <<2, 0, 0>>
      [] c = 66  -> <<2, 0, 1>>
      [] c = 769 -> <<0, 1, 0>>
      [] OTHER   -> <<3, 0, 0>>

\* the weights of one level; primary-ignorable elements drop out of level 1
RECURSIVE LevelKey(_, _)
LevelKey(s, level) ==
    IF s = <<>> THEN <<>>
    ELSE LET w == CollationElement(s[1])[level]
         IN  IF level = 1 /\ w = 0 THEN LevelKey(Tail(s), level)
             ELSE <<w>> \o LevelKey(Tail(s), level)

localeCompare(s, t) ==
    LET a  == NFD(s)
        b  == NFD(t)
        c1 == CodeUnitCompare(LevelKey(a, 1), LevelKey(b, 1))
        c2 == CodeUnitCompare(LevelKey(a, 2), LevelKey(b, 2))
        c3 == CodeUnitCompare(LevelKey(a, 3), LevelKey(b, 3))
    IN  IF c1 # 0 THEN c1 ELSE IF c2 # 0 THEN c2 ELSE c3

(***************************************************************************)
(* App.tsx                                                                 *)
(***************************************************************************)
mapLocationResult(preprocessed) ==
    [i \in 1..Len(preprocessed) |->
        LET location == preprocessed[i]
        IN  [id       |-> location.location \o <<45>> \o NumberToString(location.month)
                          \o <<45>> \o NumberToString(location.year),
             location |-> location.location,
             month    |-> location.month,
             year     |-> location.year,
             total    |-> location.total]]

(***************************************************************************)
(* Table.tsx: the two comparators                                          *)
(***************************************************************************)
\* compareValues with the location tie-break following the sort direction
compareValues_LocationFollowsDirection(column, direction, a, b) ==
    LET aVal == Get(a, column)
        bVal == Get(b, column)
    IN  IF aVal.type = "string" /\ bVal.type = "string"
        THEN LET comparison == localeCompare(aVal.str, bVal.str)
             IN  IF direction = "ascending" THEN comparison ELSE -comparison
        ELSE IF LessThan(aVal, bVal)
        THEN (IF direction = "ascending" THEN -1 ELSE 1)
        ELSE IF LessThan(bVal, aVal)
        THEN (IF direction = "ascending" THEN 1 ELSE -1)
        ELSE LET locationCompare == localeCompare(a.location, b.location)
             IN  IF locationCompare # 0
                 THEN (IF direction = "ascending" THEN locationCompare
                       ELSE -locationCompare)
                 ELSE IF a.year # b.year THEN b.year - a.year
                 ELSE b.month - a.month

\* compareValues with the string branch ignoring the sort direction
compareValues_StringIgnoresDirection(column, direction, a, b) ==
    LET aVal == Get(a, column)
        bVal == Get(b, column)
    IN  IF aVal.type = "string" /\ bVal.type = "string"
        THEN localeCompare(aVal.str, bVal.str)
        ELSE IF LessThan(aVal, bVal)
        THEN (IF direction = "ascending" THEN -1 ELSE 1)
        ELSE IF LessThan(bVal, aVal)
        THEN (IF direction = "ascending" THEN 1 ELSE -1)
        ELSE LET locationCompare == localeCompare(a.location, b.location)
             IN  IF locationCompare # 0 THEN locationCompare
                 ELSE IF a.year # b.year THEN b.year - a.year
                 ELSE b.month - a.month

\* compareValues of sortItems
compareValues(column, direction, a, b) ==
    LET aVal == Get(a, column)
        bVal == Get(b, column)
    IN  IF aVal.type = "string" /\ bVal.type = "string"
        THEN LET comparison == localeCompare(aVal.str, bVal.str)
             IN  IF direction = "ascending" THEN comparison ELSE -comparison
        ELSE IF LessThan(aVal, bVal)
        THEN (IF direction = "ascending" THEN -1 ELSE 1)
        ELSE IF LessThan(bVal, aVal)
        THEN (IF direction = "ascending" THEN 1 ELSE -1)
        ELSE LET locationCompare == localeCompare(a.location, b.location)
             IN  IF locationCompare # 0 THEN locationCompare
                 ELSE IF a.year # b.year THEN b.year - a.year
                 ELSE b.month - a.month

\* the comparator passed to items.sort inside the useMemo of Table
sortedItemsCompare(column, direction, a, b) ==
    LET first  == Get(a, column)
        second == Get(b, column)
        cmp    == IF LessThan(first, second) THEN -1
                  ELSE IF LessThan(second, first) THEN 1 ELSE 0
    IN  IF direction = "ascending" THEN cmp ELSE -cmp

\* a comparator closure: which function, and the column and direction it captured
Compare(c, a, b) ==
    IF c.fn = "compareValues"
    THEN compareValues(c.column, c.direction, a, b)
    ELSE sortedItemsCompare(c.column, c.direction, a, b)

(***************************************************************************)
(* Arrays: a heap of array objects, copies and the in-place stable sort    *)
(***************************************************************************)
\* props: props.items; memo: the array the useMemo callback allocates;
\* slice: the array items.slice() allocates inside sortItems
Refs == {"props", "memo", "slice"}

\* x inserted into the sorted s, after every element that does not sort after it
RECURSIVE Insert(_, _, _)
Insert(s, x, c) ==
    IF s = <<>> THEN <<x>>
    ELSE IF Compare(c, s[Len(s)], x) > 0
         THEN Append(Insert(SubSeq(s, 1, Len(s) - 1), x, c), s[Len(s)])
         ELSE Append(s, x)

\* the stable sort Array.prototype.sort performs, as an insertion sort
RECURSIVE StableSort(_, _)
StableSort(s, c) ==
    IF s = <<>> THEN <<>>
    ELSE Insert(StableSort(SubSeq(s, 1, Len(s) - 1), c), s[Len(s)], c)

\* array.sort(compare): sorts the array object in place and returns it
ArraySort(h, ref, c) ==
    [heap |-> [h EXCEPT ![ref] = StableSort(h[ref], c)], ref |-> ref]

\* [...array]: a new array object with the same elements
Spread(h, ref) ==
    [heap |-> [h EXCEPT !["memo"] = h[ref]], ref |-> "memo"]

\* items.sort() without the slice: the array itself is sorted and returned
Slice_SameArray(h, ref) ==
    [heap |-> h, ref |-> ref]

\* array.slice(): a new array object with the same elements
Slice(h, ref) ==
    [heap |-> [h EXCEPT !["slice"] = h[ref]], ref |-> "slice"]

(***************************************************************************)
(* Table.tsx: sortItems and the Table component                            *)
(***************************************************************************)
sortItems(h, items, column, direction) ==
    LET copy == Slice(h, items)
    IN  ArraySort(copy.heap, copy.ref,
                  [fn |-> "compareValues", column |-> column, direction |-> direction])

\* the useMemo callback computing sortedItems
useMemoSortedItems(h, propsItems, descriptor) ==
    LET items == Spread(h, propsItems)
    IN  ArraySort(items.heap, items.ref,
                  [fn |-> "inline", column |-> descriptor.column,
                   direction |-> descriptor.direction])

\* a table that starts without a sort direction
InitialSortDescriptor_NoDirection == [column |-> "location", direction |-> None]

\* useState<SortDescriptor> initial value
InitialSortDescriptor == [column |-> "location", direction |-> "ascending"]

Init ==
    /\ raw \in RawInputs
    /\ mounted = FALSE
    /\ heap = [r \in Refs |-> <<>>]
    /\ sortDescriptor = InitialSortDescriptor
    /\ sortedItems = None
    /\ request = NoDescriptor
    /\ sortArgs = NoDescriptor
    /\ sortResult = None

\* App renders: the raw rows are normalised and Table mounts with them
AppRender ==
    /\ ~mounted
    /\ LET h == [heap EXCEPT !["props"] = mapLocationResult(raw)]
           sorted == useMemoSortedItems(h, "props", InitialSortDescriptor)
       IN  /\ heap' = sorted.heap
           /\ sortedItems' = sorted.ref
    /\ mounted' = TRUE
    /\ sortDescriptor' = InitialSortDescriptor
    /\ UNCHANGED <<raw, request, sortArgs, sortResult>>

\* onSortChange={setSortDescriptor}, then the re-render recomputing sortedItems
onSortChange(descriptor) ==
    /\ mounted
    /\ request' = descriptor
    /\ sortDescriptor' = descriptor
    /\ LET sorted == useMemoSortedItems(heap, "props", descriptor)
       IN  /\ heap' = sorted.heap
           /\ sortedItems' = sorted.ref
    /\ UNCHANGED <<raw, mounted, sortArgs, sortResult>>

\* the table emits sort changes for the columns it renders as sortable
SortChange ==
    \E column \in SortableColumns, direction \in Directions :
        onSortChange([column |-> column, direction |-> direction])

\* setSortDescriptor itself accepts any SortDescriptor
AnySortChange ==
    \E column \in Keys, direction \in Directions :
        onSortChange([column |-> column, direction |-> direction])

Next == AppRender \/ SortChange

Spec == Init /\ [][Next]_vars

NextOpen == AppRender \/ AnySortChange

SpecOpen == Init /\ [][NextOpen]_vars

(***************************************************************************)
(* sortItems called directly on a record array                             *)
(***************************************************************************)
InitEngine ==
    /\ raw \in RawInputs
    /\ mounted = FALSE
    /\ heap = [r \in Refs |-> IF r = "props" THEN mapLocationResult(raw) ELSE <<>>]
    /\ sortDescriptor = InitialSortDescriptor
    /\ sortedItems = None
    /\ request = NoDescriptor
    /\ sortArgs = NoDescriptor
    /\ sortResult = None

CallSortItems ==
    \E column \in SortableColumns, direction \in Directions :
        LET result == sortItems(heap, "props", column, direction)
        IN  /\ heap' = result.heap
            /\ sortResult' = result.ref
            /\ sortArgs' = [column |-> column, direction |-> direction]
            /\ UNCHANGED <<raw, mounted, sortDescriptor, sortedItems, request>>

NextEngine == CallSortItems

SpecEngine == InitEngine /\ [][NextEngine]_vars

(***************************************************************************)
(* Helpers for the properties                                              *)
(***************************************************************************)
RECURSIVE Reverse(_)
Reverse(s) == IF s = <<>> THEN <<>> ELSE Append(Reverse(Tail(s)), Head(s))

\* the sequence sortItems returns for an array holding items
SortEngineResult(items, column, direction) ==
    LET result == sortItems([r \in Refs |-> IF r = "props" THEN items ELSE <<>>],
                            "props", column, direction)
    IN  result.heap[result.ref]

\* the two records hold the same value in the column
SameValue(a, b, column) == Get(a, column) = Get(b, column)

Opposite(direction) == IF direction = "ascending" THEN "descending" ELSE "ascending"

Called == sortArgs # NoDescriptor

\* the sequence the last sortItems call returned
Returned == heap[sortResult]

\* the rows handed to TableBody
Rows == heap[sortedItems]

(***************************************************************************)
(* C2: after mounting and after every sort change, the rows handed to the  *)
(* table body are the result of sortItems (primary key, then location      *)
(* ascending, year descending, month descending) for props.items and the   *)
(* current sort descriptor.                                                *)
(***************************************************************************)
C2_RowsAreSortEngineResult ==
    mounted =>
        Rows = SortEngineResult(heap["props"], sortDescriptor.column,
                                sortDescriptor.direction)

(***************************************************************************)
(* C3: sorting by a numeric column, of two records with equal primary      *)
(* value the one whose location collates first comes first, in both        *)
(* directions.                                                             *)
(***************************************************************************)
C3_LocationTieBreak ==
    (Called /\ sortArgs.column \in {"month", "year", "total"}) =>
        \A i, j \in 1..Len(Returned) :
            ( /\ SameValue(Returned[i], Returned[j], sortArgs.column)
              /\ localeCompare(Returned[i].location, Returned[j].location) < 0 )
            => i < j

\* a descending sort by total of two records with equal total whose
\* locations were given in the other order
C3_Witness ==
    /\ Called
    /\ sortArgs = [column |-> "total", direction |-> "descending"]
    /\ Len(Returned) = 2
    /\ Returned[1].total = Returned[2].total
    /\ localeCompare(Returned[1].location, Returned[2].location) < 0
    /\ heap["props"][1] = Returned[2]

(***************************************************************************)
(* C4: of two records with equal primary value and equal location the one  *)
(* with the higher year comes first, and with equal years the one with the *)
(* higher month, for every sort column and both directions.                *)
(***************************************************************************)
C4_YearMonthTieBreak ==
    Called =>
        \A i, j \in 1..Len(Returned) :
            ( /\ SameValue(Returned[i], Returned[j], sortArgs.column)
              /\ Returned[i].location = Returned[j].location
              /\ \/ Returned[i].year > Returned[j].year
                 \/ /\ Returned[i].year = Returned[j].year
                    /\ Returned[i].month > Returned[j].month )
            => i < j

(***************************************************************************)
(* C5: a sort never changes the array it is given, and what it returns is  *)
(* another array object: props.items keeps its elements in their order     *)
(* across every sortItems call and every re-render of the table.           *)
(***************************************************************************)
C5_InputNotMutated ==
    [][ /\ (mounted \/ Called') => heap'["props"] = heap["props"]
        /\ sortResult' # "props"
        /\ sortedItems' # "props" ]_vars

\* sortItems returned an order different from the input's, the input kept its own
C5_Witness ==
    /\ Called
    /\ sortResult = "slice"
    /\ Len(heap["props"]) = 2
    /\ Returned # heap["props"]
    /\ heap["props"] = mapLocationResult(raw)

\* the same for the copy the table sorts on every render
C5_TableWitness ==
    /\ mounted
    /\ sortedItems = "memo"
    /\ Len(heap["props"]) = 2
    /\ Rows # heap["props"]
    /\ heap["props"] = mapLocationResult(raw)

(***************************************************************************)
(* C6: a sort change naming a column outside location, month, year, total  *)
(* is rejected: the sort descriptor does not become that column.           *)
(***************************************************************************)
C6_UnknownColumnRejected ==
    (request # NoDescriptor /\ request.column \notin SortableColumns)
        => sortDescriptor.column # request.column

(***************************************************************************)
(* C7: after normalisation no two records of props.items have the same id. *)
(***************************************************************************)
C7_IdsUnique ==
    mounted =>
        \A i, j \in 1..Len(heap["props"]) :
            i # j => heap["props"][i].id # heap["props"][j].id

(***************************************************************************)
(* C8: the sort descriptor starts as (location, ascending) and is always   *)
(* one of the four columns with one of the two directions.                 *)
(***************************************************************************)
C8_SortStateDefined ==
    /\ sortDescriptor = [column |-> "location", direction |-> "ascending"]
    /\ [](/\ sortDescriptor.column \in {"location", "month", "year", "total"}
          /\ sortDescriptor.direction \in {"ascending", "descending"})

\* a sort change has moved the descriptor away from its initial value
C8_Witness ==
    /\ mounted
    /\ request = [column |-> "total", direction |-> "descending"]
    /\ sortDescriptor = request

(***************************************************************************)
(* C9: when no two records hold the same value in the sort column, the     *)
(* descending result is the reverse of the ascending result.               *)
(***************************************************************************)
C9_ReverseWhenValuesDistinct ==
    ( /\ Called
      /\ \A i, j \in 1..Len(heap["props"]) :
             i # j => ~SameValue(heap["props"][i], heap["props"][j], sortArgs.column) )
    => Returned = Reverse(SortEngineResult(heap["props"], sortArgs.column,
                                           Opposite(sortArgs.direction)))

\* the two records tie in the column as the sort compares them: equal
\* numbers, or strings that localeCompare reports as equal
Ties(a, b, column) ==
    LET aVal == Get(a, column)
        bVal == Get(b, column)
    IN  IF aVal.type = "string" /\ bVal.type = "string"
        THEN localeCompare(aVal.str, bVal.str) = 0
        ELSE aVal = bVal

\* C9 as amended: when no two records tie in the sort column (for location:
\* no two locations that localeCompare reports as equal, which canonically
\* equivalent spellings are), the descending result is the reverse of the
\* ascending result.
C9_ReverseWhenNoTies ==
    ( /\ Called
      /\ \A i, j \in 1..Len(heap["props"]) :
             i # j => ~Ties(heap["props"][i], heap["props"][j], sortArgs.column) )
    => Returned = Reverse(SortEngineResult(heap["props"], sortArgs.column,
                                           Opposite(sortArgs.direction)))

\* a descending sort of two records with different keys, given in ascending order
C9_Witness ==
    /\ Called
    /\ sortArgs.direction = "descending"
    /\ Len(heap["props"]) = 2
    /\ ~Ties(heap["props"][1], heap["props"][2], sortArgs.column)
    /\ Returned = Reverse(heap["props"])

(***************************************************************************)
(* C10: sorting by location, two records with the same location are        *)
(* ordered by year descending, then month descending.                      *)
(***************************************************************************)
C10_ChainAfterLocation ==
    (Called /\ sortArgs.column = "location") =>
        \A i \in 1..Len(Returned) - 1 :
            Returned[i].location = Returned[i + 1].location =>
                \/ Returned[i].year > Returned[i + 1].year
                \/ /\ Returned[i].year = Returned[i + 1].year
                   /\ Returned[i].month >= Returned[i + 1].month

====
